---- MODULE Spec2Model ----
(***************************************************************************)
(* Model of the non-conformance dashboard (src/dashboard_bi.py).           *)
(*                                                                         *)
(* The script is re-executed top to bottom on every user interaction.  A   *)
(* run is modelled as the sequence of its sections: login branch           *)
(* (l.56-62), load inside the authenticated branch (l.102-104), main       *)
(* interface load (l.245-248), sidebar filters and colours (l.250-277),    *)
(* export (l.279-292), page body (l.294-365).  The only state that         *)
(* survives a run is the st.cache_data entry of load_data_from_gsheets.    *)
(*                                                                         *)
(* Names the script reads but never binds (authentication_status,          *)
(* LOGO_URL, tema_selecionado) are taken as supplied by the environment:   *)
(* authentication_status is an input of the run, the logo download either  *)
(* succeeds or fails.                                                      *)
(*                                                                         *)
(* A date cell of the sheet is the sequence of its numeric fields:         *)
(* <<d, m>> is the text "d/m", <<>> is a blank cell, <<0>> is text that    *)
(* is no date.  Department names are strings; DeptRank gives their         *)
(* lexicographic order.                                                    *)
(***************************************************************************)
EXTENDS Integers, Sequences, FiniteSets, TLC

VARIABLES
    upstream,               \* what the spreadsheet API answers: [ok, rows]
    cache,                  \* st.cache_data entry of load_data_from_gsheets
    pc,                     \* section of the script the run is at
    authentication_status,  \* "ok" (True), "wrong" (False), "none" (None)
    df,                     \* module-level df
    criteria,               \* date_range and the three multiselect values
    df_filtered,            \* module-level df_filtered
    cores_setores,          \* department -> colour, from the colour pickers
    messages,               \* user-visible messages shown in this run
    steps,                  \* rendering steps executed in this run
    loads,                  \* outcome of each load of this run: "fetch" / "hit"
    errors,                 \* errors that occurred in this run
    report,                 \* what create_powerpoint_presentation did
    dashboard               \* what the page body computed and drew

vars == <<upstream, cache, pc, authentication_status, df, criteria, df_filtered,
          cores_setores, messages, steps, loads, errors, report, dashboard>>

-----------------------------------------------------------------------------
(* Bounds and program constants *)

MaxRows == 2
MaxAggRows == 3
TickSeconds == 150
ttl == 300
NaT == 0

DefaultColor == "#1f77b4"
Colors == {DefaultColor, "#d62728"}
Departments == {"Logistics", "Production"}
DeptRank == [d \in Departments |-> IF d = "Logistics" THEN 1 ELSE 2]
Classifications == {"Externa", "Interna"}
Ratings == {"", "Eficaz"}

-----------------------------------------------------------------------------
(* Helpers on sequences *)

Range(s) == {s[i] : i \in DOMAIN s}

SeqsUpTo(S, n) == UNION {[1..k -> S] : k \in 0..n}

RECURSIVE GCD(_, _)
GCD(a, b) == IF b = 0 THEN a ELSE GCD(b, a % b)

\* a / b as an exact fraction in lowest terms (b > 0)
Frac(a, b) == LET g == GCD(a, b) IN [num |-> a \div g, den |-> b \div g]

\* rows of s whose mask entry is TRUE, in order (boolean indexing df[mask])
RECURSIVE BoolIndex(_, _)
BoolIndex(s, mask) ==
    IF s = <<>> THEN <<>>
    ELSE LET rest == BoolIndex(Tail(s), Tail(mask))
         IN IF Head(mask) THEN <<Head(s)>> \o rest ELSE rest

-----------------------------------------------------------------------------
(* Record Normalizer: load_data_from_gsheets, l.69-100 *)

\* pd.to_datetime(..., errors='coerce', dayfirst=True) on one cell: the first
\* field is the day, the second the month; anything else is NaT.  The result
\* is the day's ordinal in the year (31-day months).
to_datetime(cell) ==
    IF Len(cell) = 2 /\ cell[1] \in 1..31 /\ cell[2] \in 1..12
    THEN (cell[2] - 1) * 31 + cell[1]
    ELSE NaT

\* l.91: 'Resolvida' if pd.notna(x) else 'Pendente'
status_of(x) == IF x # NaT THEN "Resolvida" ELSE "Pendente"

\* l.84-91 on one sheet row; index is the DataFrame index label
typed_row(rows, i) ==
    [index  |-> i,
     DATA   |-> to_datetime(rows[i].occ),
     ENC    |-> to_datetime(rows[i].clo),
     STATUS |-> status_of(to_datetime(rows[i].clo)),
     CLASS  |-> rows[i].cls,
     DEPTO  |-> rows[i].dep,
     EFIC   |-> rows[i].efi]

\* (faulty variant, for the sensitivity of C2: no row is dropped)
dropna_keep_all(frame) == frame

\* l.90: df.dropna(subset=['DATA DA NAO CONFORMIDADE'])
dropna(frame) ==
    BoolIndex(frame, [i \in DOMAIN frame |-> frame[i].DATA # NaT])

\* the function body: returned frame, the st.* calls it makes, what went wrong
load_data_from_gsheets(up) ==
    IF ~up.ok
    THEN [df |-> <<>>, msgs |-> {"error:load"}, errs |-> {"fetch"}]
    ELSE IF up.rows = <<>>
    THEN [df |-> <<>>, msgs |-> {"warning:empty_sheet"}, errs |-> {}]
    ELSE LET typed == [i \in DOMAIN up.rows |-> typed_row(up.rows, i)]
             kept  == dropna(typed)
         IN [df   |-> kept,
             msgs |-> {},
             errs |-> IF Len(kept) < Len(typed) THEN {"parse"} ELSE {}]

\* @st.cache_data(ttl=300): an entry younger than ttl is returned without
\* running the body, and the st.* calls recorded with it are replayed
NoCache == [has |-> FALSE, age |-> 0, value |-> [df |-> <<>>, msgs |-> {}, errs |-> {}]]

cache_fresh(c) == c.has /\ c.age < ttl

cached_load(c, up) ==
    IF cache_fresh(c)
    THEN [outcome |-> "hit", value |-> [c.value EXCEPT !.errs = {}], cache |-> c]
    ELSE LET v == load_data_from_gsheets(up)
         IN [outcome |-> "fetch", value |-> v,
             cache |-> [has |-> TRUE, age |-> 0, value |-> v]]

-----------------------------------------------------------------------------
(* Sidebar: filter widgets, l.252-257 *)

Column(frame, col) == [i \in DOMAIN frame |-> frame[i][col]]

\* Series.unique() as the set of observed values
unique(frame, col) == Range(Column(frame, col))

min_date(frame) ==
    CHOOSE d \in unique(frame, "DATA") : \A e \in unique(frame, "DATA") : d <= e

max_date(frame) ==
    CHOOSE d \in unique(frame, "DATA") : \A e \in unique(frame, "DATA") : d >= e

\* what the widgets can return for a non-empty df: a date range inside
\* [min_date, max_date] and any sub-selection of the observed values
DateRanges(frame) ==
    {p \in (min_date(frame)..max_date(frame)) \X (min_date(frame)..max_date(frame)) :
        p[1] <= p[2]}

FilterChoices(frame) ==
    {[start |-> p[1], end |-> p[2], cls |-> c, dep |-> d, status |-> s] :
        p \in DateRanges(frame),
        c \in SUBSET unique(frame, "CLASS"),
        d \in SUBSET unique(frame, "DEPTO"),
        s \in SUBSET unique(frame, "STATUS")}

NoCriteria == [start |-> 0, end |-> 0, cls |-> {}, dep |-> {}, status |-> {}]

-----------------------------------------------------------------------------
(* Filter Engine: df_filtered, l.259-266 *)

\* (faulty variant, for the sensitivity of C1: the period's ends are excluded)
row_mask_exclusive(r, c) ==
    /\ r.DATA > c.start
    /\ r.DATA < c.end
    /\ r.CLASS \in c.cls
    /\ r.DEPTO \in c.dep
    /\ r.STATUS \in c.status

\* the conjunction of the five element-wise comparisons, for one row
row_mask(r, c) ==
    /\ r.DATA >= c.start
    /\ r.DATA <= c.end
    /\ r.CLASS \in c.cls
    /\ r.DEPTO \in c.dep
    /\ r.STATUS \in c.status

filter_df(frame, c) ==
    BoolIndex(frame, [i \in DOMAIN frame |-> row_mask(frame[i], c)])

-----------------------------------------------------------------------------
(* Aggregator *)

CountOf(col, k) == Cardinality({i \in DOMAIN col : col[i] = k})

Injective(q) == \A i, j \in DOMAIN q : i # j => q[i] # q[j]

Orders(K) == {q \in [1..Cardinality(K) -> K] : Injective(q)}

\* Series.value_counts(): one entry per distinct value, by decreasing count;
\* pandas leaves the order of equal counts open, so every such order is an
\* outcome
value_counts(col) ==
    {[i \in DOMAIN q |-> [key |-> q[i], n |-> CountOf(col, q[i])]] :
        q \in {o \in Orders(Range(col)) :
                 \A i, j \in DOMAIN o :
                    i < j => CountOf(col, o[i]) >= CountOf(col, o[j])}}

\* keys in order of first appearance
RECURSIVE first_seen(_)
first_seen(col) ==
    IF col = <<>> THEN <<>>
    ELSE LET h == Head(col)
         IN <<h>> \o first_seen(SelectSeq(Tail(col), LAMBDA x : x # h))

\* (faulty variant, for the sensitivity of C4: groups left in first-seen order)
groupby_size_first_seen(col) ==
    [i \in DOMAIN first_seen(col) |->
        [key |-> first_seen(col)[i], n |-> CountOf(col, first_seen(col)[i])]]

\* df.groupby('DEPARTAMENTO RESPONSÁVEL').size(): groupby sorts the group keys
groupby_size(col) ==
    LET q == CHOOSE o \in Orders(Range(col)) :
                 \A i, j \in DOMAIN o : i < j => DeptRank[o[i]] < DeptRank[o[j]]
    IN [i \in DOMAIN q |-> [key |-> q[i], n |-> CountOf(col, q[i])]]

status_count(frame, s) ==
    Len(BoolIndex(frame, [i \in DOMAIN frame |-> frame[i].STATUS = s]))

\* l.296-299
dashboard_kpis(frame) ==
    LET total_ncs == Len(frame)
        ncs_pendentes == status_count(frame, "Pendente")
        df_resolvidas == status_count(frame, "Resolvida")
    IN [total_ncs      |-> total_ncs,
        ncs_pendentes  |-> ncs_pendentes,
        ncs_resolvidas |-> df_resolvidas,
        taxa_resolucao |-> IF total_ncs > 0
                           THEN Frac(df_resolvidas * 100, total_ncs)
                           ELSE Frac(0, 1)]

\* l.324: rows whose rating is not the empty string
df_eficacia(frame) ==
    BoolIndex(frame, [i \in DOMAIN frame |-> frame[i].EFIC # ""])

\* sns.barplot(..., palette=<dict>): one bar per row of the grouped data,
\* coloured by looking the department up in the dict; a department that is
\* no key of the dict makes seaborn raise
palette_complete(data, palette) ==
    \A i \in DOMAIN data : data[i].key \in DOMAIN palette

barplot(data, palette) ==
    [i \in DOMAIN data |->
        [key |-> data[i].key, n |-> data[i].n, color |-> palette[data[i].key]]]

-----------------------------------------------------------------------------
(* Report Renderer: create_powerpoint_presentation, l.119-221 *)

NoPalette == [d \in {} |-> DefaultColor]

NoReport ==
    [called |-> FALSE, raised |-> FALSE, logo |-> FALSE, input |-> <<>>,
     palette |-> NoPalette,
     total_ncs |-> 0, ncs_pendentes |-> 0, ncs_resolvidas |-> 0,
     perc_pendentes |-> Frac(0, 1), perc_resolvidas |-> Frac(0, 1),
     kpis |-> <<>>, pie |-> <<>>, depto_data |-> <<>>, bars |-> <<>>]

\* l.135: df.shape[0] if not df.empty else 1
renderer_total(frame) == IF frame # <<>> THEN Len(frame) ELSE 1

\* logo_ok: download_image_from_url returned a path (l.107-115);
\* pie: the outcome of value_counts() on the classification column
create_powerpoint_presentation(frame, logo_ok, cores_departamentos, pie) ==
    LET total_ncs == renderer_total(frame)
        ncs_pendentes == status_count(frame, "Pendente")
        ncs_resolvidas == status_count(frame, "Resolvida")
        depto_data == groupby_size(Column(frame, "DEPTO"))
        ok == palette_complete(depto_data, cores_departamentos)
    IN [called |-> TRUE,
        raised |-> ~ok,
        logo |-> logo_ok,
        input |-> frame,
        palette |-> cores_departamentos,
        total_ncs |-> total_ncs,
        ncs_pendentes |-> ncs_pendentes,
        ncs_resolvidas |-> ncs_resolvidas,
        perc_pendentes |-> Frac(ncs_pendentes * 100, total_ncs),
        perc_resolvidas |-> Frac(ncs_resolvidas * 100, total_ncs),
        kpis |-> <<"NCs Pendentes", "NCs Resolvidas">>,
        pie |-> pie,
        depto_data |-> depto_data,
        bars |-> IF ok THEN barplot(depto_data, cores_departamentos) ELSE <<>>]

\* l.294-338: gauges, the two pies, the department bar chart
body_result(frame, palette, pie, pie_efic) ==
    LET df_depto == IF frame # <<>> THEN groupby_size(Column(frame, "DEPTO")) ELSE <<>>
        ok == palette_complete(df_depto, palette)
    IN [shown    |-> TRUE,
        raised   |-> ~ok,
        input    |-> frame,
        palette  |-> palette,
        kpis     |-> dashboard_kpis(frame),
        pie      |-> pie,
        eficacia |-> pie_efic,
        df_depto |-> df_depto,
        bars     |-> IF ok THEN barplot(df_depto, palette) ELSE <<>>]

NoDashboard ==
    [shown |-> FALSE, raised |-> FALSE, input |-> <<>>, palette |-> NoPalette,
     kpis |-> dashboard_kpis(<<>>), pie |-> <<>>, eficacia |-> <<>>,
     df_depto |-> <<>>, bars |-> <<>>]


-----------------------------------------------------------------------------
(* The script run *)

\* sheet rows the pipeline is run on
SheetRows ==
    [occ : {<<0>>, <<1, 2>>}, clo : {<<>>, <<3, 2>>}, cls : {"Interna"},
     dep : Departments, efi : Ratings]

Answers(rowset, n) ==
    {[ok |-> FALSE, rows |-> <<>>]} \cup
    {[ok |-> TRUE, rows |-> r] : r \in SeqsUpTo(rowset, n)}

RunLocalsReset ==
    /\ authentication_status = "none"
    /\ df = <<>>
    /\ criteria = NoCriteria
    /\ df_filtered = <<>>
    /\ cores_setores = NoPalette
    /\ messages = {}
    /\ steps = {}
    /\ loads = <<>>
    /\ errors = {}
    /\ report = NoReport
    /\ dashboard = NoDashboard

Init ==
    /\ upstream \in Answers(SheetRows, MaxRows)
    /\ cache = NoCache
    /\ pc = "idle"
    /\ RunLocalsReset

\* l.56-62: the three-way branch on authentication_status
Login ==
    /\ pc = "idle"
    /\ \E a \in {"ok", "wrong", "none"} :
        /\ authentication_status' = a
        /\ messages' = CASE a = "wrong" -> {"error:credentials"}
                         [] a = "none"  -> {"warning:credentials"}
                         [] a = "ok"    -> {"success:logged_in"}
        /\ pc' = IF a = "ok" THEN "authenticated" ELSE "main"
    /\ UNCHANGED <<upstream, cache, df, criteria, df_filtered, cores_setores,
                   steps, loads, errors, report, dashboard>>

\* l.102-104: title, df = load_data_from_gsheets(), st.dataframe(df)
AuthenticatedLoad ==
    /\ pc = "authenticated"
    /\ LET r == cached_load(cache, upstream)
       IN /\ cache' = r.cache
          /\ df' = r.value.df
          /\ messages' = messages \cup r.value.msgs
          /\ errors' = errors \cup r.value.errs
          /\ loads' = Append(loads, r.outcome)
    /\ steps' = steps \cup {"dataframe:raw"}
    /\ pc' = "main"
    /\ UNCHANGED <<upstream, authentication_status, criteria, df_filtered,
                   cores_setores, report, dashboard>>

\* l.245-248: title, df = load_data_from_gsheets(), st.stop() on an empty df.
\* load_data_from_gsheets is bound only inside the authenticated branch, so
\* in any other run the call raises NameError.
MainLoad ==
    /\ pc = "main"
    /\ IF authentication_status # "ok"
       THEN /\ pc' = "crashed"
            /\ UNCHANGED <<cache, df, messages, errors, loads>>
       ELSE LET r == cached_load(cache, upstream)
            IN /\ cache' = r.cache
               /\ df' = r.value.df
               /\ messages' = messages \cup r.value.msgs
               /\ errors' = errors \cup r.value.errs
               /\ loads' = Append(loads, r.outcome)
               /\ pc' = IF r.value.df = <<>> THEN "stopped" ELSE "sidebar"
    /\ UNCHANGED <<upstream, authentication_status, criteria, df_filtered,
                   cores_setores, steps, report, dashboard>>

\* (faulty variant, for the sensitivity of C10: only the first row's department)
departamentos_unicos_first(frame) == {frame[1].DEPTO}

\* l.272: df['DEPARTAMENTO RESPONSÁVEL'].unique(), on the unfiltered df
departamentos_unicos(frame) == unique(frame, "DEPTO")

\* l.250-277: the filter widgets, df_filtered, one colour picker per
\* department of df
Sidebar ==
    /\ pc = "sidebar"
    /\ \E c \in FilterChoices(df) :
        /\ criteria' = c
        /\ df_filtered' = filter_df(df, c)
    /\ cores_setores' \in [departamentos_unicos(df) -> Colors]
    /\ steps' = steps \cup {"filters", "color_pickers"}
    /\ pc' = "export"
    /\ UNCHANGED <<upstream, cache, authentication_status, df, messages, loads,
                   errors, report, dashboard>>

\* (faulty variant, for the sensitivity of C6: the guard is missing)
export_always(frame) == TRUE

\* l.282: if not df_filtered.empty
export_enabled(frame) == frame # <<>>

\* l.279-292
Export ==
    /\ pc = "export"
    /\ IF export_enabled(df_filtered)
       THEN /\ \E logo_ok \in BOOLEAN :
                \E pie \in value_counts(Column(df_filtered, "CLASS")) :
                    report' = create_powerpoint_presentation(
                                  df_filtered, logo_ok, cores_setores, pie)
            /\ steps' = IF report'.raised THEN steps
                        ELSE steps \cup {"download_button"}
            /\ pc' = IF report'.raised THEN "crashed" ELSE "body"
            /\ UNCHANGED <<messages, errors>>
       ELSE /\ messages' = messages \cup {"info:no_export"}
            /\ errors' = errors \cup {"empty_result"}
            /\ pc' = "body"
            /\ UNCHANGED <<report, steps>>
    /\ UNCHANGED <<upstream, cache, authentication_status, df, criteria,
                   df_filtered, cores_setores, loads, dashboard>>

\* l.294-365: what the page body shows
body_messages(frame) ==
    (IF df_eficacia(frame) = <<>> THEN {"text:no_efficacy_data"} ELSE {}) \cup
    (IF frame = <<>> THEN {"text:no_department_data"} ELSE {})

body_steps(frame) ==
    {"gauges", "pie_classification", "dataframe:filtered"} \cup
    (IF df_eficacia(frame) # <<>> THEN {"pie_efficacy"} ELSE {}) \cup
    (IF frame # <<>> THEN {"bar_department"} ELSE {})

Body ==
    /\ pc = "body"
    /\ \E pie \in value_counts(Column(df_filtered, "CLASS")) :
         \E pie_efic \in value_counts(Column(df_eficacia(df_filtered), "EFIC")) :
            dashboard' = body_result(df_filtered, cores_setores, pie, pie_efic)
    /\ IF dashboard'.raised
       THEN /\ pc' = "crashed"
            /\ steps' = steps \cup {"gauges", "pie_classification"}
            /\ UNCHANGED messages
       ELSE /\ pc' = "done"
            /\ steps' = steps \cup body_steps(df_filtered)
            /\ messages' = messages \cup body_messages(df_filtered)
    /\ UNCHANGED <<upstream, cache, authentication_status, df, criteria,
                   df_filtered, cores_setores, loads, errors, report>>

\* the next interaction re-executes the script with fresh globals
Rerun ==
    /\ pc \in {"done", "stopped", "crashed"}
    /\ pc' = "idle"
    /\ authentication_status' = "none"
    /\ df' = <<>>
    /\ criteria' = NoCriteria
    /\ df_filtered' = <<>>
    /\ cores_setores' = NoPalette
    /\ messages' = {}
    /\ steps' = {}
    /\ loads' = <<>>
    /\ errors' = {}
    /\ report' = NoReport
    /\ dashboard' = NoDashboard
    /\ UNCHANGED <<upstream, cache>>

\* time passes between runs; the entry's age is followed until it expires
Tick ==
    /\ pc = "idle"
    /\ cache.has
    /\ cache.age < ttl
    /\ cache' = [cache EXCEPT !.age = @ + TickSeconds]
    /\ UNCHANGED <<upstream, pc, authentication_status, df, criteria,
                   df_filtered, cores_setores, messages, steps, loads, errors,
                   report, dashboard>>

Next ==
    \/ Login
    \/ AuthenticatedLoad
    \/ MainLoad
    \/ Sidebar
    \/ Export
    \/ Body
    \/ Rerun
    \/ Tick

Spec == Init /\ [][Next]_vars


-----------------------------------------------------------------------------
(* The normalizer applied to sheets with every kind of date cell *)

NormRows ==
    [occ : {<<>>, <<0>>, <<1, 2>>, <<13, 1>>}, clo : {<<>>, <<0>>, <<3, 2>>},
     cls : {"Interna"}, dep : {"Logistics"}, efi : {""}]

InitNormalize ==
    /\ upstream \in Answers(NormRows, MaxRows)
    /\ cache = NoCache
    /\ pc = "normalize:call"
    /\ RunLocalsReset

Normalize ==
    /\ pc = "normalize:call"
    /\ LET v == load_data_from_gsheets(upstream)
       IN /\ df' = v.df
          /\ messages' = v.msgs
          /\ errors' = v.errs
    /\ loads' = <<"fetch">>
    /\ pc' = "normalize:return"
    /\ UNCHANGED <<upstream, cache, authentication_status, criteria, df_filtered,
                   cores_setores, steps, report, dashboard>>

NextNormalize == Normalize

SpecNormalize == InitNormalize /\ [][NextNormalize]_vars

-----------------------------------------------------------------------------
(* The filter applied to every non-empty df and every widget selection *)

FilterRows ==
    [occ : {<<1, 2>>, <<2, 2>>}, clo : {<<>>, <<3, 2>>}, cls : Classifications,
     dep : Departments, efi : {""}]

InitFilter ==
    /\ upstream \in {[ok |-> TRUE, rows |-> r] :
                        r \in SeqsUpTo(FilterRows, MaxRows) \ {<<>>}}
    /\ cache = NoCache
    /\ pc = "filter:call"
    /\ authentication_status = "none"
    /\ df = load_data_from_gsheets(upstream).df
    /\ criteria = NoCriteria
    /\ df_filtered = <<>>
    /\ cores_setores = NoPalette
    /\ messages = {}
    /\ steps = {}
    /\ loads = <<>>
    /\ errors = {}
    /\ report = NoReport
    /\ dashboard = NoDashboard

ApplyFilter ==
    /\ pc = "filter:call"
    /\ \E c \in FilterChoices(df) :
        /\ criteria' = c
        /\ df_filtered' = filter_df(df, c)
    /\ pc' = "filter:return"
    /\ UNCHANGED <<upstream, cache, authentication_status, df, cores_setores,
                   messages, steps, loads, errors, report, dashboard>>

NextFilter == ApplyFilter

SpecFilter == InitFilter /\ [][NextFilter]_vars

-----------------------------------------------------------------------------
(* The aggregator and the renderer applied to every record set and every    *)
(* colour assignment                                                        *)

AggRows ==
    [occ : {<<1, 2>>}, clo : {<<>>, <<3, 2>>}, cls : Classifications,
     dep : Departments, efi : {"Eficaz"}]

\* every mapping from some of the departments to a colour
Palettes == UNION {[D -> Colors] : D \in SUBSET Departments}

InitAggregate ==
    /\ upstream \in {[ok |-> TRUE, rows |-> r] : r \in SeqsUpTo(AggRows, MaxAggRows)}
    /\ cache = NoCache
    /\ pc = "aggregate:call"
    /\ authentication_status = "none"
    /\ df = load_data_from_gsheets(upstream).df
    /\ criteria = NoCriteria
    /\ df_filtered = df
    /\ cores_setores = NoPalette
    /\ messages = {}
    /\ steps = {}
    /\ loads = <<>>
    /\ errors = {}
    /\ report = NoReport
    /\ dashboard = NoDashboard

\* create_powerpoint_presentation(df_filtered, LOGO_URL, palette)
RenderReport ==
    /\ pc = "aggregate:call"
    /\ \E palette \in Palettes :
         \E logo_ok \in BOOLEAN :
           \E pie \in value_counts(Column(df_filtered, "CLASS")) :
              /\ cores_setores' = palette
              /\ report' = create_powerpoint_presentation(
                               df_filtered, logo_ok, palette, pie)
    /\ pc' = "aggregate:rendered"
    /\ UNCHANGED <<upstream, cache, authentication_status, df, criteria,
                   df_filtered, messages, steps, loads, errors, dashboard>>

\* l.294-361 on df_filtered with the colour assignment given
Aggregate ==
    /\ pc = "aggregate:call"
    /\ \E palette \in Palettes :
         \E pie \in value_counts(Column(df_filtered, "CLASS")) :
           \E pie_efic \in value_counts(Column(df_eficacia(df_filtered), "EFIC")) :
              /\ cores_setores' = palette
              /\ dashboard' = body_result(df_filtered, palette, pie, pie_efic)
    /\ messages' = IF dashboard'.raised THEN {} ELSE body_messages(df_filtered)
    /\ pc' = "aggregate:shown"
    /\ UNCHANGED <<upstream, cache, authentication_status, df, criteria,
                   df_filtered, steps, loads, errors, report>>

NextAggregate ==
    \/ RenderReport
    \/ Aggregate

SpecAggregate == InitAggregate /\ [][NextAggregate]_vars


-----------------------------------------------------------------------------
(* Properties *)

\* a date cell that is present and reads as a day-first date
IsDate(cell) == Len(cell) = 2 /\ cell[1] \in 1..31 /\ cell[2] \in 1..12

\* the four predicates of the Filter Engine, as specified
Passes(r, c) ==
    /\ c.start <= r.DATA /\ r.DATA <= c.end
    /\ r.CLASS \in c.cls
    /\ r.DEPTO \in c.dep
    /\ r.STATUS \in c.status

\* out is the subsequence of frame made of exactly the rows at positions P
IsSubsequenceAt(out, frame, P) ==
    /\ Len(out) = Cardinality(P)
    /\ \E f \in [DOMAIN out -> P] :
        /\ \A k \in DOMAIN out : out[k] = frame[f[k]]
        /\ \A k, l \in DOMAIN out : k < l => f[k] < f[l]

\* C1: after filtering, df_filtered is exactly the subsequence of df (order
\* kept, nothing added, nothing repeated) of the records whose date lies in
\* [start, end] inclusive and whose classification, department and status
\* are all among the selected values.
C1_FilterIsExactSubsequence ==
    pc = "filter:return" =>
        IsSubsequenceAt(df_filtered, df,
                        {i \in DOMAIN df : Passes(df[i], criteria)})

\* C1 witness: a two-record df of which the filter kept the second record
\* only, the first one lying before the start of the period.
C1_Witness ==
    /\ pc = "filter:return"
    /\ Len(df) = 2
    /\ df_filtered = <<df[2]>>
    /\ df[1].DATA < criteria.start
    /\ df[2].DATA = criteria.start
    /\ df[1].CLASS \in criteria.cls /\ df[1].DEPTO \in criteria.dep
    /\ df[1].STATUS \in criteria.status

\* C2: every record the normalizer returns comes from a sheet row whose
\* occurrence date is present and parses, carries that parsed date, and has
\* status Resolvida exactly when the row's closure date is present and
\* parses, Pendente otherwise.
C2_NormalizerContract ==
    pc = "normalize:return" =>
        \A i \in DOMAIN df :
            LET raw == upstream.rows[df[i].index]
            IN /\ IsDate(raw.occ)
               /\ df[i].DATA # NaT
               /\ df[i].STATUS \in {"Pendente", "Resolvida"}
               /\ df[i].STATUS = "Resolvida" <=> IsDate(raw.clo)

\* C2 witness: a two-row sheet whose first row has no readable occurrence
\* date and was dropped, and whose second row survived as Pendente because
\* its closure cell is text that is no date.
C2_Witness ==
    /\ pc = "normalize:return"
    /\ Len(upstream.rows) = 2
    /\ ~IsDate(upstream.rows[1].occ)
    /\ upstream.rows[2].clo = <<0>>
    /\ Len(df) = 1
    /\ df[1].index = 2
    /\ df[1].STATUS = "Pendente"

\* summarize as specified, for a record set and the four values computed
SummaryOf(frame, total, pending, resolved, rate) ==
    /\ total = Len(frame)
    /\ pending = Cardinality({i \in DOMAIN frame : frame[i].STATUS = "Pendente"})
    /\ resolved = Cardinality({i \in DOMAIN frame : frame[i].STATUS = "Resolvida"})
    /\ rate.den > 0
    /\ IF total = 0 THEN rate.num = 0
       ELSE rate.num * total = resolved * 100 * rate.den

\* C3: for every record set, the dashboard KPIs and the renderer's KPI
\* values are total = number of records, pending and resolved = counts by
\* status, rate = resolved / total * 100, and all of them 0 on the empty set.
C3_SummaryContract ==
    /\ pc = "aggregate:shown" =>
          SummaryOf(dashboard.input, dashboard.kpis.total_ncs,
                    dashboard.kpis.ncs_pendentes, dashboard.kpis.ncs_resolvidas,
                    dashboard.kpis.taxa_resolucao)
    /\ pc = "aggregate:rendered" =>
          SummaryOf(report.input, report.total_ncs, report.ncs_pendentes,
                    report.ncs_resolvidas, report.perc_resolvidas)

\* one entry per distinct key, each with the number of records of that key
IsGroupCount(g, col) ==
    /\ {g[i].key : i \in DOMAIN g} = Range(col)
    /\ Len(g) = Cardinality(Range(col))
    /\ \A i \in DOMAIN g : g[i].n = Cardinality({j \in DOMAIN col : col[j] = g[i].key})

RECURSIVE SumN(_)
SumN(g) == IF g = <<>> THEN 0 ELSE Head(g).n + SumN(Tail(g))

\* position of the first record with key k
FirstAt(col, k) == CHOOSE i \in DOMAIN col : col[i] = k /\ \A j \in 1..(i - 1) : col[j] # k

InFirstSeenOrder(g, col) ==
    \A i, j \in DOMAIN g : i < j => FirstAt(col, g[i].key) < FirstAt(col, g[j].key)

\* C4 as stated: the classification and department breakdowns have one
\* entry per distinct key with its count, the counts sum to the input
\* length, and the entries are in first-seen order of the keys.
C4_GroupCountFirstSeen ==
    /\ pc = "aggregate:rendered" =>
          /\ IsGroupCount(report.pie, Column(report.input, "CLASS"))
          /\ IsGroupCount(report.depto_data, Column(report.input, "DEPTO"))
          /\ SumN(report.pie) = Len(report.input)
          /\ SumN(report.depto_data) = Len(report.input)
          /\ InFirstSeenOrder(report.pie, Column(report.input, "CLASS"))
          /\ InFirstSeenOrder(report.depto_data, Column(report.input, "DEPTO"))
    /\ pc = "aggregate:shown" =>
          /\ IsGroupCount(dashboard.pie, Column(dashboard.input, "CLASS"))
          /\ IsGroupCount(dashboard.df_depto, Column(dashboard.input, "DEPTO"))
          /\ SumN(dashboard.pie) = Len(dashboard.input)
          /\ SumN(dashboard.df_depto) = Len(dashboard.input)
          /\ InFirstSeenOrder(dashboard.pie, Column(dashboard.input, "CLASS"))
          /\ InFirstSeenOrder(dashboard.df_depto, Column(dashboard.input, "DEPTO"))

ByDecreasingCount(g) == \A i, j \in DOMAIN g : i < j => g[i].n >= g[j].n

ByIncreasingKey(g) == \A i, j \in DOMAIN g : i < j => DeptRank[g[i].key] < DeptRank[g[j].key]

\* C4 amended: the breakdowns have one entry per distinct key with its
\* count and the counts sum to the input length; the classification entries
\* are in order of decreasing count and the department entries in increasing
\* order of the department name.
C4_GroupCountSorted ==
    /\ pc = "aggregate:rendered" =>
          /\ IsGroupCount(report.pie, Column(report.input, "CLASS"))
          /\ IsGroupCount(report.depto_data, Column(report.input, "DEPTO"))
          /\ SumN(report.pie) = Len(report.input)
          /\ SumN(report.depto_data) = Len(report.input)
          /\ ByDecreasingCount(report.pie)
          /\ ByIncreasingKey(report.depto_data)
    /\ pc = "aggregate:shown" =>
          /\ IsGroupCount(dashboard.pie, Column(dashboard.input, "CLASS"))
          /\ IsGroupCount(dashboard.df_depto, Column(dashboard.input, "DEPTO"))
          /\ SumN(dashboard.pie) = Len(dashboard.input)
          /\ SumN(dashboard.df_depto) = Len(dashboard.input)
          /\ ByDecreasingCount(dashboard.pie)
          /\ ByIncreasingKey(dashboard.df_depto)

\* C4 witness: a rendered breakdown of three records in which the key seen
\* first is neither the most frequent classification nor the first
\* department by name.
C4_Witness ==
    /\ pc = "aggregate:rendered"
    /\ Len(report.input) = 3
    /\ report.input[1].DEPTO = "Production"
    /\ report.depto_data[1].key = "Logistics"
    /\ report.pie[1].key # report.input[1].CLASS
    /\ report.pie[1].n = 2


\* C7 as stated: whenever the department bar chart of the report is rendered,
\* rendering completes, a department with an entry in the colour assignment
\* gets that colour and a department without one gets the default colour.
C7_MissingColorFallsBack ==
    pc = "aggregate:rendered" =>
        /\ ~report.raised
        /\ Len(report.bars) = Len(report.depto_data)
        /\ \A i \in DOMAIN report.bars :
              report.bars[i].color =
                  IF report.bars[i].key \in DOMAIN report.palette
                  THEN report.palette[report.bars[i].key]
                  ELSE DefaultColor

RenderingSteps ==
    {"dataframe:raw", "filters", "color_pickers", "download_button", "gauges",
     "pie_classification", "pie_efficacy", "bar_department", "dataframe:filtered"}

\* C5 as stated: in a run whose upstream fetch failed, the error message is
\* shown and no filter control, aggregation, chart, data table or export
\* step is executed.
C5_HaltAfterFetchFailure ==
    "fetch" \in errors =>
        /\ "error:load" \in messages
        /\ df = <<>>
        /\ steps \cap RenderingSteps = {}
        /\ ~report.called
        /\ ~dashboard.shown

\* C6: the renderer is invoked and the download button offered exactly in
\* the runs whose filtered set is non-empty; with an empty filtered set no
\* document is rendered, no download is offered and the informational
\* message is shown instead.
C6_ExportIffNonEmpty ==
    /\ report.called => report.input = df_filtered /\ df_filtered # <<>>
    /\ "download_button" \in steps => report.called /\ ~report.raised
    /\ "info:no_export" \in messages => df_filtered = <<>> /\ ~report.called
    /\ pc \in {"body", "done"} =>
          /\ df_filtered # <<>> => report.called /\ "download_button" \in steps
          /\ df_filtered = <<>> => "info:no_export" \in messages

\* C6 witness: a finished run over a non-empty df whose filter selection
\* left nothing, so that the message replaced the export.
C6_Witness ==
    /\ pc = "done"
    /\ df # <<>>
    /\ df_filtered = <<>>
    /\ "info:no_export" \in messages
    /\ ~report.called

\* messages that signal a problem (the login confirmation does not)
Signals == messages \ {"success:logged_in"}

\* C8 as stated: by the end of the run, every error that occurred in it (a
\* failed fetch, a date that did not parse and cost a record, an empty
\* result) has been followed by a warning, error or informational message.
C8_ErrorsAreSignalled ==
    pc \in {"done", "stopped"} =>
        /\ "fetch" \in errors => "error:load" \in messages
        /\ "empty_result" \in errors => "info:no_export" \in messages
        /\ "parse" \in errors => Signals # {}

AtLoad == pc = "authenticated" \/ (pc = "main" /\ authentication_status = "ok")

\* a step that returns the cached RecordSet without an upstream fetch
ServedFromCache ==
    /\ Next
    /\ loads' = Append(loads, "hit")
    /\ df' = cache.value.df
    /\ cache' = cache

\* a step that performs an upstream fetch and stores its result
FreshFetch ==
    /\ Next
    /\ loads' = Append(loads, "fetch")
    /\ df' = load_data_from_gsheets(upstream).df
    /\ cache'.age = 0

\* C9 as stated: at every load, an unexpired entry is served without an
\* upstream fetch, an expired or absent entry leads to a fresh fetch, and
\* with an unexpired entry a fetch that bypasses it is still obtainable.
C9_CacheWindowAndForcedRefresh ==
    AtLoad =>
        /\ cache_fresh(cache) => ENABLED ServedFromCache
        /\ ~cache_fresh(cache) => (ENABLED FreshFetch) /\ ~(ENABLED ServedFromCache)
        /\ cache_fresh(cache) => ENABLED FreshFetch

\* C10: whenever the renderer is called, the colour assignment it receives
\* has an entry for every department of the filtered set, its keys being
\* the departments of the unfiltered df.
C10_PaletteCoversFiltered ==
    /\ report.called =>
          /\ unique(report.input, "DEPTO") \subseteq DOMAIN report.palette
          /\ DOMAIN report.palette = unique(df, "DEPTO")
          /\ ~report.raised
    /\ pc \in {"export", "body", "done"} =>
          unique(df_filtered, "DEPTO") \subseteq DOMAIN cores_setores

\* C10 witness: the renderer was called for a filtered set holding one of
\* the two departments of df.
C10_Witness ==
    /\ report.called
    /\ Cardinality(unique(df, "DEPTO")) = 2
    /\ Cardinality(unique(report.input, "DEPTO")) = 1
    /\ Cardinality(DOMAIN report.palette) = 2


====
